---------------------------- MODULE Spec2Model ----------------------------
(***************************************************************************)
(* Model of s3-create-locked-objects-parallel.py: an interactive script    *)
(* that discovers the buckets with object lock enabled, prompts for a      *)
(* bucket, a retention date, an object count, a key prefix and a start     *)
(* index, and uploads locked objects through a thread pool.                *)
(*                                                                         *)
(* Text is modelled as a sequence of characters, each character a string.  *)
(* Two characters outside ASCII are named: "SUP2" is U+00B2 (superscript   *)
(* two) and "ARABIC3" is U+0663 (Arabic-Indic digit three).                *)
(***************************************************************************)
EXTENDS Integers, Sequences, FiniteSets, TLC

(***************************************************************************)
(* Bounds of the model.                                                    *)
(***************************************************************************)
\* longest bucket listing the object store returns
MaxBuckets == 2
\* largest object count accepted at the count prompt
MaxObjects == 3
\* worker threads of the pool (the host's default concurrency)
MaxWorkers == 2
\* invalid answers taken at one prompt (each is answered "Invalid Date Format.
\* Please Retry." or "Please enter a valid number." and the prompt repeats)
MaxAttempts == 1
\* largest payload size, in KiB, drawn by create_object
MaxSizeKb == 1

(***************************************************************************)
(* Characters and the Python built-ins the script applies to its inputs.   *)
(***************************************************************************)
AsciiDigits == <<"0", "1", "2", "3", "4", "5", "6", "7", "8", "9">>

IsAsciiDigit(c) == \E i \in 1..10 : AsciiDigits[i] = c

\* Unicode category Nd: what int() converts and what the regex \d matches
IsDecimal(c) == IsAsciiDigit(c) \/ c = "ARABIC3"

\* str.isdigit() per character: Numeric_Type Digit or Decimal
IsDigitChar(c) == IsDecimal(c) \/ c = "SUP2"

DecimalValue(c) ==
    IF c = "ARABIC3" THEN 3 ELSE (CHOOSE i \in 1..10 : AsciiDigits[i] = c) - 1

IsSpace(c) == c = " "

\* str.isdigit(): non-empty and every character is a digit character
isdigit(s) == Len(s) > 0 /\ \A i \in 1..Len(s) : IsDigitChar(s[i])

RECURSIVE lstrip(_)
lstrip(s) == IF Len(s) > 0 /\ IsSpace(s[1]) THEN lstrip(Tail(s)) ELSE s

RECURSIVE rstrip(_)
rstrip(s) ==
    IF Len(s) > 0 /\ IsSpace(s[Len(s)]) THEN rstrip(SubSeq(s, 1, Len(s) - 1)) ELSE s

\* the digits of an int() literal: decimal digits, single underscores between
IsIntBody(s) ==
    /\ Len(s) > 0
    /\ IsDecimal(s[1])
    /\ IsDecimal(s[Len(s)])
    /\ \A i \in 1..Len(s) : IsDecimal(s[i]) \/ s[i] = "_"
    /\ \A i \in 1..(Len(s) - 1) : ~(s[i] = "_" /\ s[i + 1] = "_")

RECURSIVE IntBodyValue(_, _)
IntBodyValue(s, acc) ==
    IF Len(s) = 0 THEN acc
    ELSE IF s[1] = "_" THEN IntBodyValue(Tail(s), acc)
    ELSE IntBodyValue(Tail(s), acc * 10 + DecimalValue(s[1]))

\* int(s): [ok |-> FALSE] stands for ValueError
int(s) ==
    LET t == rstrip(lstrip(s))
        signed == Len(t) > 0 /\ t[1] \in {"-", "+"}
        body == IF signed THEN Tail(t) ELSE t
    IN  IF ~IsIntBody(body) THEN [ok |-> FALSE, val |-> 0]
        ELSE [ok |-> TRUE,
              val |-> IF signed /\ t[1] = "-" THEN 0 - IntBodyValue(body, 0)
                      ELSE IntBodyValue(body, 0)]

\* str(i) of a non-negative integer
RECURSIVE str(_)
str(i) ==
    IF i < 10 THEN <<AsciiDigits[i + 1]>>
    ELSE str(i \div 10) \o <<AsciiDigits[(i % 10) + 1]>>

(***************************************************************************)
(* validate_date: datetime.strptime(date_text, '%Y-%m-%dT%H:%M:%SZ').      *)
(* strptime compiles the format to a regular expression, case-insensitive, *)
(* matches it at the start of the text, refuses unconverted data after the *)
(* match, converts the groups with int() and builds a datetime.            *)
(***************************************************************************)
\* a regex character range [lo-hi] over ASCII digits
InRange(c, lo, hi) == IsAsciiDigit(c) /\ DecimalValue(c) >= lo /\ DecimalValue(c) <= hi

\* %Y: \d\d\d\d
ReY(w) == Len(w) = 4 /\ \A i \in 1..4 : IsDecimal(w[i])

\* %m: 1[0-2]|0[1-9]|[1-9]
Rem(w) ==
    \/ Len(w) = 2 /\ w[1] = "1" /\ InRange(w[2], 0, 2)
    \/ Len(w) = 2 /\ w[1] = "0" /\ InRange(w[2], 1, 9)
    \/ Len(w) = 1 /\ InRange(w[1], 1, 9)

\* %d: 3[0-1]|[1-2]\d|0[1-9]|[1-9]| [1-9]
Red(w) ==
    \/ Len(w) = 2 /\ w[1] = "3" /\ InRange(w[2], 0, 1)
    \/ Len(w) = 2 /\ InRange(w[1], 1, 2) /\ IsDecimal(w[2])
    \/ Len(w) = 2 /\ w[1] = "0" /\ InRange(w[2], 1, 9)
    \/ Len(w) = 1 /\ InRange(w[1], 1, 9)
    \/ Len(w) = 2 /\ w[1] = " " /\ InRange(w[2], 1, 9)

\* %H: 2[0-3]|[0-1]\d|\d
ReH(w) ==
    \/ Len(w) = 2 /\ w[1] = "2" /\ InRange(w[2], 0, 3)
    \/ Len(w) = 2 /\ InRange(w[1], 0, 1) /\ IsDecimal(w[2])
    \/ Len(w) = 1 /\ IsDecimal(w[1])

\* %M: [0-5]\d|\d
ReM(w) ==
    \/ Len(w) = 2 /\ InRange(w[1], 0, 5) /\ IsDecimal(w[2])
    \/ Len(w) = 1 /\ IsDecimal(w[1])

\* %S: 6[0-1]|[0-5]\d|\d
ReS(w) ==
    \/ Len(w) = 2 /\ w[1] = "6" /\ InRange(w[2], 0, 1)
    \/ Len(w) = 2 /\ InRange(w[1], 0, 5) /\ IsDecimal(w[2])
    \/ Len(w) = 1 /\ IsDecimal(w[1])

\* a literal of the format, matched ignoring case
ReLit(s, p, c) ==
    /\ p <= Len(s)
    /\ \/ s[p] = c
       \/ c = "T" /\ s[p] = "t"
       \/ c = "Z" /\ s[p] = "z"

\* the ways the regular expression matches a prefix of s: the last position
\* of each of the six groups (a group is 1 or 2 characters after %Y's 4),
\* e[6] + 1 being the place of the final Z
ReMatches(s) ==
    {e \in {4} \X (6..7) \X (8..10) \X (10..13) \X (12..16) \X (14..19) :
        /\ e[6] + 1 <= Len(s)
        /\ \A k \in 2..6 : e[k] > e[k - 1] + 1 /\ e[k] <= e[k - 1] + 3
        /\ ReY(SubSeq(s, 1, e[1]))
        /\ ReLit(s, e[1] + 1, "-")
        /\ Rem(SubSeq(s, e[1] + 2, e[2]))
        /\ ReLit(s, e[2] + 1, "-")
        /\ Red(SubSeq(s, e[2] + 2, e[3]))
        /\ ReLit(s, e[3] + 1, "T")
        /\ ReH(SubSeq(s, e[3] + 2, e[4]))
        /\ ReLit(s, e[4] + 1, ":")
        /\ ReM(SubSeq(s, e[4] + 2, e[5]))
        /\ ReLit(s, e[5] + 1, ":")
        /\ ReS(SubSeq(s, e[5] + 2, e[6]))
        /\ ReLit(s, e[6] + 1, "Z")}

IsLeap(y) == (y % 4 = 0 /\ y % 100 # 0) \/ y % 400 = 0

DaysInMonth(y, m) ==
    IF m = 2 THEN (IF IsLeap(y) THEN 29 ELSE 28)
    ELSE IF m \in {4, 6, 9, 11} THEN 30 ELSE 31

\* datetime(year, month, day, hour, minute, second) raises no ValueError
DatetimeOk(y, m, d, H, M, S) ==
    /\ y >= 1 /\ y <= 9999
    /\ m >= 1 /\ m <= 12
    /\ d >= 1 /\ d <= DaysInMonth(y, m)
    /\ H >= 0 /\ H <= 23
    /\ M >= 0 /\ M <= 59
    /\ S >= 0 /\ S <= 59

validate_date(date_text) ==
    LET found == ReMatches(date_text)
    IN  /\ found # {}
        /\ LET e == CHOOSE x \in found : TRUE
           IN  /\ Len(date_text) = e[6] + 1
               /\ DatetimeOk(int(SubSeq(date_text, 1, e[1])).val,
                             int(SubSeq(date_text, e[1] + 2, e[2])).val,
                             int(SubSeq(date_text, e[2] + 2, e[3])).val,
                             int(SubSeq(date_text, e[3] + 2, e[4])).val,
                             int(SubSeq(date_text, e[4] + 2, e[5])).val,
                             int(SubSeq(date_text, e[5] + 2, e[6])).val)


(***************************************************************************)
(* The answers typed at the prompts, and the object store's replies.       *)
(***************************************************************************)
\* answers to "Enter the number of the bucket ...": 1, 2, 3, 4, 0, -7, 7, x
SelectionInputs ==
    {<<"1">>, <<"2">>, <<"3">>, <<"4">>, <<"0">>, <<"-", "7">>, <<"7">>, <<"x">>}

\* answers to the retention prompt
RetentionInputs ==
    {<<"2","0","2","4","-","1","2","-","3","1","T","0","0",":","0","0",":","0","0","Z">>,
     <<"2","0","2","4","-","1","-","5","T","0",":","0",":","0","Z">>,
     <<"2","0","2","4","-","1","2","-","3","1">>,
     <<"2","0","2","4","-","1","3","-","0","1","T","0","0",":","0","0",":","0","0","Z">>,
     <<"2","0","2","4","-","0","2","-","3","0","T","0","0",":","0","0",":","0","0","Z">>,
     <<"2","0","2","4","-","1","2","-","3","1","T","0","0",":","0","0",":","0","0","Z"," ">>}

\* answers to "Enter the number of objects to create": 0, 1, 2, 3, 4, the
\* empty line, -1, x and U+00B2
CountInputs ==
    {<<"0">>, <<"1">>, <<"2">>, <<"3">>, <<"4">>, <<>>, <<"-", "1">>, <<"x">>, <<"SUP2">>}

\* answers to the prefix prompt: the empty line and test-
PrefixInputs == {<<>>, <<"t","e","s","t","-">>}

\* answers to "Enter the initial index ...": 009, the empty line, -1, 1.5
\* and U+00B2
StartInputs ==
    {<<"0", "0", "9">>, <<>>, <<"-", "1">>, <<"1", ".", "5">>, <<"SUP2">>}

\* what get_object_lock_configuration does for one bucket: a response with
\* the configuration, a response without it, ClientError with the code
\* ObjectLockConfigurationNotFoundError, ClientError with another code
LockReplies == {"config", "noconfig", "notfound", "othererror"}

\* the name of the i-th bucket of the listing
BucketName(i) == <<"bucket", i>>

(***************************************************************************)
(* The state of the script.                                                *)
(***************************************************************************)
VARIABLES
    pc,                        \* the statement the main thread is at
    s3,                        \* the module-level client: "client" or "None"
    buckets,                   \* buckets_response['Buckets'], as names
    replies,                   \* the lock-configuration replies received so far
    buckets_with_object_lock,
    bucket_index,
    bucket_name,
    retention,
    num_objects,
    prefix,
    start_index,
    futures,                   \* the submitted tasks: object key and state
    collected,                 \* the futures as_completed has yielded
    puts,                      \* the put_object calls made
    attempts,                  \* invalid answers given at the current prompt
    prompts,                   \* the prompts issued so far
    printed,                   \* the messages printed so far
    error,                     \* <<>> or <<statement, exception>> that ended the run
    random_size_kb,            \* create_object: the size drawn, in KiB
    choices,                   \* random.choices(words, k): the words drawn, by index
    joined,                    \* generate_readable_text: the text before the slice
    content                    \* create_object: the payload returned

vars ==
    <<pc, s3, buckets, replies, buckets_with_object_lock, bucket_index, bucket_name,
      retention, num_objects, prefix, start_index, futures, collected, puts, attempts,
      prompts, printed, error, random_size_kb, choices, joined, content>>

genVars == <<random_size_kb, choices, joined, content>>

inputVars == <<bucket_index, bucket_name, retention, num_objects, prefix, start_index>>

poolVars == <<futures, collected, puts>>

discoveryVars == <<s3, buckets, replies, buckets_with_object_lock>>

Init ==
    /\ pc = "init"
    /\ s3 = "None"
    /\ buckets = <<>>
    /\ replies = <<>>
    /\ buckets_with_object_lock = <<>>
    /\ bucket_index = 0
    /\ bucket_name = <<>>
    /\ retention = <<>>
    /\ num_objects = 0
    /\ prefix = <<>>
    /\ start_index = 0
    /\ futures = <<>>
    /\ collected = {}
    /\ puts = {}
    /\ attempts = 0
    /\ prompts = {}
    /\ printed = {}
    /\ error = <<>>
    /\ random_size_kb = 0
    /\ choices = <<>>
    /\ joined = <<>>
    /\ content = <<>>

\* an unhandled exception ends the run with a traceback
Raise(at, exception) ==
    /\ pc' = "crashed"
    /\ error' = <<at, exception>>


(***************************************************************************)
(* Client initialisation and bucket discovery.                             *)
(***************************************************************************)
\* s3 = init_s3_client(): the client when the probe call succeeded, None
\* when any exception was caught and printed
init_s3_client ==
    /\ pc = "init"
    /\ \E ok \in BOOLEAN :
        /\ s3' = IF ok THEN "client" ELSE "None"
        /\ printed' = printed \cup (IF ok THEN {"connected"} ELSE {"init_error"})
    /\ pc' = "list"
    /\ UNCHANGED <<genVars, buckets, replies, buckets_with_object_lock, inputVars, poolVars,
                   attempts, prompts, error>>

\* buckets_response = s3.list_buckets(): on None the attribute access raises
list_buckets ==
    /\ pc = "list"
    /\ \/ /\ s3 = "None"
          /\ Raise("list_buckets", "AttributeError")
          /\ UNCHANGED buckets
       \/ /\ s3 = "client"
          /\ Raise("list_buckets", "ClientError")
          /\ UNCHANGED buckets
       \/ /\ s3 = "client"
          /\ \E n \in 0..MaxBuckets : buckets' = [i \in 1..n |-> BucketName(i)]
          /\ pc' = "discover"
          /\ UNCHANGED error
    /\ UNCHANGED <<genVars, s3, replies, buckets_with_object_lock, inputVars, poolVars,
                   attempts, prompts, printed>>

\* AppendIfLocked taking any response for a configuration
AppendIfResponse(list, name, reply) ==
    IF reply \in {"config", "noconfig"} THEN Append(list, name) ELSE list

\* the list after one pass of the loop body that did not raise
AppendIfLocked(list, name, reply) ==
    IF reply = "config" THEN Append(list, name) ELSE list

\* whether the except clause re-raises the reply
Reraised(reply) == reply = "othererror"

\* one pass of "for bucket in buckets": query the next bucket
get_object_lock_configuration ==
    /\ pc = "discover"
    /\ Len(replies) < Len(buckets)
    /\ \E reply \in LockReplies :
        /\ replies' = Append(replies, reply)
        /\ IF Reraised(reply)
           THEN /\ Raise("get_object_lock_configuration", "ClientError")
                /\ UNCHANGED buckets_with_object_lock
           ELSE /\ buckets_with_object_lock' =
                       AppendIfLocked(buckets_with_object_lock,
                                      buckets[Len(replies) + 1], reply)
                /\ UNCHANGED <<pc, error>>
    /\ UNCHANGED <<genVars, s3, buckets, inputVars, poolVars, attempts, prompts, printed>>

\* NoBuckets testing the object-lock list (the test the script comments out)
NoLockedBuckets == buckets_with_object_lock = <<>>

\* "if not buckets": the condition of the early exit
NoBuckets == buckets = <<>>

\* the listing is displayed, or the script exits when there is no bucket
display_buckets ==
    /\ pc = "discover"
    /\ Len(replies) = Len(buckets)
    /\ IF NoBuckets
       THEN /\ printed' = printed \cup {"all_buckets", "none", "exiting"}
            /\ pc' = "exited"
       ELSE /\ printed' = printed \cup {"all_buckets", "lock_buckets"}
            /\ pc' = "select"
    /\ UNCHANGED <<genVars, discoveryVars, inputVars, poolVars, attempts, prompts, error>>

(***************************************************************************)
(* The prompts.                                                            *)
(***************************************************************************)
\* list[index] of Python: a negative index counts from the end
IndexInRange(list, index) == index >= 0 - Len(list) /\ index < Len(list)

Subscript(list, index) ==
    IF index >= 0 THEN list[index + 1] ELSE list[Len(list) + index + 1]

\* bucket_index = int(input(...)) - 1; bucket_name = list[bucket_index]
select_bucket ==
    /\ pc = "select"
    /\ prompts' = prompts \cup {"bucket"}
    /\ \E answer \in SelectionInputs :
        LET number == int(answer)
        IN  IF ~number.ok
            THEN /\ Raise("select_bucket", "ValueError")
                 /\ UNCHANGED <<bucket_index, bucket_name, printed>>
            ELSE IF ~IndexInRange(buckets_with_object_lock, number.val - 1)
            THEN /\ Raise("select_bucket", "IndexError")
                 /\ bucket_index' = number.val - 1
                 /\ UNCHANGED <<bucket_name, printed>>
            ELSE /\ bucket_index' = number.val - 1
                 /\ bucket_name' = Subscript(buckets_with_object_lock, number.val - 1)
                 /\ printed' = printed \cup {"selected"}
                 /\ pc' = "retention"
                 /\ UNCHANGED error
    /\ UNCHANGED <<genVars, discoveryVars, retention, num_objects, prefix, start_index,
                   poolVars, attempts>>

\* retention = input(...), repeated while not validate_date(retention)
retention_prompt ==
    /\ pc = "retention"
    /\ prompts' = prompts \cup {"retention"}
    /\ \E answer \in RetentionInputs :
        IF validate_date(answer)
        THEN /\ retention' = answer
             /\ pc' = "count"
             /\ attempts' = 0
             /\ UNCHANGED printed
        ELSE /\ attempts < MaxAttempts
             /\ attempts' = attempts + 1
             /\ UNCHANGED <<pc, retention, printed>>
    /\ UNCHANGED <<genVars, discoveryVars, bucket_index, bucket_name, num_objects, prefix, start_index,
                   poolVars, error>>

\* num_objects = input(...), repeated while not num_objects.isdigit(), then
\* num_objects = int(num_objects)
count_prompt ==
    /\ pc = "count"
    /\ prompts' = prompts \cup {"count"}
    /\ \E answer \in CountInputs :
        IF isdigit(answer)
        THEN IF int(answer).ok
             THEN /\ int(answer).val <= MaxObjects
                  /\ num_objects' = int(answer).val
                  /\ pc' = "prefix"
                  /\ attempts' = 0
                  /\ UNCHANGED <<printed, error>>
             ELSE /\ Raise("count_prompt", "ValueError")
                  /\ UNCHANGED <<num_objects, attempts, printed>>
        ELSE /\ attempts < MaxAttempts
             /\ attempts' = attempts + 1
             /\ UNCHANGED <<pc, num_objects, printed, error>>
    /\ UNCHANGED <<genVars, discoveryVars, bucket_index, bucket_name, retention, prefix, start_index,
                   poolVars>>

\* prefix = input(...): any text
prefix_prompt ==
    /\ pc = "prefix"
    /\ prompts' = prompts \cup {"prefix"}
    /\ \E answer \in PrefixInputs : prefix' = answer
    /\ pc' = "start"
    /\ UNCHANGED <<genVars, discoveryVars, bucket_index, bucket_name, retention, num_objects,
                   start_index,
                   poolVars, attempts, printed, error>>

\* start_index = input(...), repeated while not start_index.isdigit(), then
\* start_index = int(start_index)
start_prompt ==
    /\ pc = "start"
    /\ prompts' = prompts \cup {"start"}
    /\ \E answer \in StartInputs :
        IF isdigit(answer)
        THEN IF int(answer).ok
             THEN /\ start_index' = int(answer).val
                  /\ pc' = "submit"
                  /\ attempts' = 0
                  /\ UNCHANGED <<printed, error>>
             ELSE /\ Raise("start_prompt", "ValueError")
                  /\ UNCHANGED <<start_index, attempts, printed>>
        ELSE /\ attempts < MaxAttempts
             /\ attempts' = attempts + 1
             /\ UNCHANGED <<pc, start_index, printed, error>>
    /\ UNCHANGED <<genVars, discoveryVars, bucket_index, bucket_name, retention, num_objects, prefix,
                   poolVars>>


(***************************************************************************)
(* The upload dispatcher: "with ThreadPoolExecutor() as executor".         *)
(* A future is "pending" (queued), "running" (a worker thread is in        *)
(* create_object), "done" (create_object returned) or "raised".            *)
(***************************************************************************)
Finished(f) == f.state \in {"done", "raised"}

\* ObjectKey numbering every object with the start index
ObjectKeyFirstIndex(p, i) == p \o str(start_index) \o <<".", "t", "x", "t">>

\* object_key = f"{prefix}{i}" + ".txt"
ObjectKey(p, i) == p \o str(i) \o <<".", "t", "x", "t">>

\* one pass of "for i in range(start_index, start_index + num_objects)":
\* executor.submit(create_object, bucket_name, object_key, retention)
submit ==
    /\ pc = "submit"
    /\ Len(futures) < num_objects
    /\ futures' = Append(futures,
                         [key |-> ObjectKey(prefix, start_index + Len(futures)),
                          bucket |-> bucket_name,
                          retention |-> retention,
                          state |-> "pending"])
    /\ UNCHANGED <<genVars, pc, discoveryVars, inputVars, collected, puts, attempts, prompts,
                   printed, error>>

\* the range is exhausted: the main thread enters "for future in as_completed"
as_completed ==
    /\ pc = "submit"
    /\ Len(futures) = num_objects
    /\ pc' = "collect"
    /\ UNCHANGED <<genVars, discoveryVars, inputVars, poolVars, attempts, prompts, printed, error>>

\* a worker thread takes the oldest queued task when a thread is free
worker_take ==
    /\ pc \in {"submit", "collect", "exit_with", "unwind"}
    /\ Cardinality({i \in 1..Len(futures) : futures[i].state = "running"}) < MaxWorkers
    /\ \E i \in 1..Len(futures) :
        /\ futures[i].state = "pending"
        /\ \A j \in 1..(i - 1) : futures[j].state # "pending"
        /\ futures' = [futures EXCEPT ![i].state = "running"]
    /\ UNCHANGED <<genVars, pc, discoveryVars, inputVars, collected, puts, attempts, prompts,
                   printed, error>>

\* the call create_object makes:
\* s3.put_object(Bucket=bucket_name, Key=object_key, Body=content,
\*               ObjectLockMode='GOVERNANCE', ObjectLockRetainUntilDate=retention)
PutObject(i, f) ==
    [future |-> i,
     Bucket |-> f.bucket,
     Key |-> f.key,
     ObjectLockMode |-> "GOVERNANCE",
     ObjectLockRetainUntilDate |-> f.retention]

\* create_object in a worker thread: put_object returns or raises (the
\* payload it builds first is the subject of GenSpec below)
create_object ==
    /\ \E i \in 1..Len(futures) :
        /\ futures[i].state = "running"
        /\ puts' = puts \cup {PutObject(i, futures[i])}
        /\ \E ok \in BOOLEAN :
            futures' = [futures EXCEPT ![i].state = IF ok THEN "done" ELSE "raised"]
    /\ UNCHANGED <<genVars, pc, discoveryVars, inputVars, collected, attempts, prompts,
                   printed, error>>

\* future_result never calling result(): a raised future is passed over
future_result_ignored ==
    /\ pc = "collect"
    /\ \E i \in 1..Len(futures) :
        /\ i \notin collected
        /\ Finished(futures[i])
        /\ collected' = collected \cup {i}
    /\ UNCHANGED <<genVars, pc, discoveryVars, inputVars, futures, puts, attempts,
                   prompts, printed, error>>

\* one pass of "for future in as_completed(futures): future.result()"; when a
\* future raised, result() raises it again and the with block is left
future_result ==
    /\ pc = "collect"
    /\ \E i \in 1..Len(futures) :
        /\ i \notin collected
        /\ Finished(futures[i])
        /\ IF futures[i].state = "raised"
           THEN /\ pc' = "unwind"
                /\ UNCHANGED collected
           ELSE /\ collected' = collected \cup {i}
                /\ UNCHANGED pc
    /\ UNCHANGED <<genVars, discoveryVars, inputVars, futures, puts, attempts, prompts,
                   printed, error>>

\* every future has been yielded: the with block ends normally
end_collect ==
    /\ pc = "collect"
    /\ collected = 1..Len(futures)
    /\ pc' = "exit_with"
    /\ UNCHANGED <<genVars, discoveryVars, inputVars, poolVars, attempts, prompts, printed, error>>

\* ShutdownReturns of shutdown(wait=False): it returns at once
ShutdownNoWait == TRUE

\* ThreadPoolExecutor.__exit__ is shutdown(wait=True): it returns when every
\* submitted task has finished, and cancels none
ShutdownReturns == \A i \in 1..Len(futures) : Finished(futures[i])

\* leaving the with block: to the summary, or with the task's exception
exit_with ==
    /\ pc \in {"exit_with", "unwind"}
    /\ ShutdownReturns
    /\ IF pc = "unwind"
       THEN Raise("future_result", "Exception")
       ELSE pc' = "summary" /\ UNCHANGED error
    /\ UNCHANGED <<genVars, discoveryVars, inputVars, poolVars, attempts, prompts, printed>>

\* print(f"\n{num_objects} locked objects successfully created ...")
print_summary ==
    /\ pc = "summary"
    /\ printed' = printed \cup {"summary"}
    /\ pc' = "done"
    /\ UNCHANGED <<genVars, discoveryVars, inputVars, poolVars, attempts, prompts, error>>

Next ==
    \/ init_s3_client
    \/ list_buckets
    \/ get_object_lock_configuration
    \/ display_buckets
    \/ select_bucket
    \/ retention_prompt
    \/ count_prompt
    \/ prefix_prompt
    \/ start_prompt
    \/ submit
    \/ as_completed
    \/ worker_take
    \/ create_object
    \/ future_result
    \/ end_collect
    \/ exit_with
    \/ print_summary

Spec == Init /\ [][Next]_vars

\* Fairness: from the submission loop on, the main thread and the pool's
\* worker threads are scheduled by the operating system and every put_object
\* call returns or raises, so a step of the dispatcher that stays possible is
\* taken.  The prompts get no fairness: the user may never answer.
Dispatch ==
    \/ submit
    \/ as_completed
    \/ worker_take
    \/ create_object
    \/ future_result
    \/ end_collect
    \/ exit_with
    \/ print_summary

FairSpec == Spec /\ WF_vars(Dispatch)

(***************************************************************************)
(* The content generator.  The script's main flow never reads a payload,   *)
(* so the generator is a specification of its own: GenInit draws the size  *)
(* and the words, generate applies generate_readable_text.                 *)
(***************************************************************************)
words ==
    <<<<"L","o","r","e","m">>,
      <<"i","p","s","u","m">>,
      <<"d","o","l","o","r">>,
      <<"s","i","t">>,
      <<"a","m","e","t">>,
      <<"c","o","n","s","e","c","t","e","t","u","r">>,
      <<"a","d","i","p","i","s","c","i","n","g">>,
      <<"e","l","i","t">>,
      <<"s","e","d">>,
      <<"d","o">>,
      <<"e","i","u","s","m","o","d">>,
      <<"t","e","m","p","o","r">>,
      <<"i","n","c","i","d","i","d","u","n","t">>,
      <<"u","t">>,
      <<"l","a","b","o","r","e">>,
      <<"e","t">>,
      <<"d","o","l","o","r","e">>,
      <<"m","a","g","n","a">>,
      <<"a","l","i","q","u","a">>,
      <<"u","t">>,
      <<"e","n","i","m">>,
      <<"a","d">>,
      <<"m","i","n","i","m">>,
      <<"v","e","n","i","a","m">>,
      <<"q","u","i","s">>,
      <<"n","o","s","t","r","u","d">>,
      <<"e","x","e","r","c","i","t","a","t","i","o","n">>,
      <<"u","l","l","a","m","c","o">>,
      <<"l","a","b","o","r","i","s">>,
      <<"n","i","s","i">>,
      <<"u","t">>,
      <<"a","l","i","q","u","i","p">>,
      <<"e","x">>,
      <<"e","a">>,
      <<"c","o","m","m","o","d","o">>,
      <<"c","o","n","s","e","q","u","a","t">>,
      <<"d","u","i","s">>,
      <<"a","u","t","e">>,
      <<"i","r","u","r","e">>,
      <<"d","o","l","o","r">>,
      <<"i","n">>,
      <<"r","e","p","r","e","h","e","n","d","e","r","i","t">>,
      <<"i","n">>,
      <<"v","o","l","u","p","t","a","t","e">>,
      <<"v","e","l","i","t">>,
      <<"e","s","s","e">>,
      <<"c","i","l","l","u","m">>,
      <<"d","o","l","o","r","e">>,
      <<"e","u">>,
      <<"f","u","g","i","a","t">>,
      <<"n","u","l","l","a">>,
      <<"p","a","r","i","a","t","u","r">>,
      <<"e","x","c","e","p","t","e","u","r">>,
      <<"s","i","n","t">>,
      <<"o","c","c","a","e","c","a","t">>,
      <<"c","u","p","i","d","a","t","a","t">>,
      <<"n","o","n">>,
      <<"p","r","o","i","d","e","n","t">>,
      <<"s","u","n","t">>,
      <<"i","n">>,
      <<"c","u","l","p","a">>,
      <<"q","u","i">>,
      <<"o","f","f","i","c","i","a">>,
      <<"d","e","s","e","r","u","n","t">>,
      <<"m","o","l","l","i","t">>,
      <<"a","n","i","m">>,
      <<"i","d">>,
      <<"e","s","t">>,
      <<"l","a","b","o","r","u","m">>>>

Min(a, b) == IF a < b THEN a ELSE b

\* ' '.join(ws)
RECURSIVE join(_)
join(ws) ==
    IF Len(ws) = 0 THEN <<>>
    ELSE IF Len(ws) = 1 THEN ws[1]
    ELSE LET h == Len(ws) \div 2
         IN  join(SubSeq(ws, 1, h)) \o <<" ">> \o join(SubSeq(ws, h + 1, Len(ws)))

\* s[:n]
Slice(s, n) == SubSeq(s, 1, Min(n, Len(s)))

\* the number of words drawn: k=size_kb * 200
WordCount(size_kb) == size_kb * 200

\* the text before the slice: the drawn words joined by single spaces
JoinedText(picks) == join([i \in 1..Len(picks) |-> words[picks[i]]])

\* generate_readable_text without the slice
generate_untruncated(size_kb, picks) == JoinedText(picks)

\* return content[:size_kb * 1024]
generate_readable_text(size_kb, picks) == Slice(JoinedText(picks), size_kb * 1024)

\* random.randint(1, 1024), within the model's bound
SizesKb == 1..Min(1024, MaxSizeKb)

\* the draws of random.choices(words, k=n) the model takes: word a for the
\* first j words, word b for the rest, over a 2-, a 3-, a 4-, a 5- and a
\* 12-letter word ("do", "sit", "amet", "Lorem", "exercitation")
DrawnWords == {10, 4, 5, 1, 27}

SplitPoints == {0, 24, 25, 26, 49, 100}

Draws(n) ==
    {[i \in 1..n |-> IF i <= j THEN a ELSE b] :
        a \in DrawnWords, b \in DrawnWords, j \in SplitPoints}

GenInit ==
    /\ Init!1 /\ Init!2 /\ Init!3 /\ Init!4 /\ Init!5 /\ Init!6 /\ Init!7
    /\ Init!8 /\ Init!9 /\ Init!10 /\ Init!11 /\ Init!12 /\ Init!13 /\ Init!14
    /\ Init!15 /\ Init!16 /\ Init!17 /\ Init!18
    /\ random_size_kb \in SizesKb
    /\ choices \in Draws(WordCount(random_size_kb))
    /\ joined = <<>>
    /\ content = <<>>

\* content = generate_readable_text(random_size_kb)
generate ==
    /\ content = <<>>
    /\ joined' = JoinedText(choices)
    /\ content' = generate_readable_text(random_size_kb, choices)
    /\ UNCHANGED <<pc, discoveryVars, inputVars, poolVars, attempts, prompts,
                   printed, error, random_size_kb, choices>>

GenNext == generate

GenSpec == GenInit /\ [][GenNext]_vars

(***************************************************************************)
(* Properties.                                                             *)
(***************************************************************************)
\* the run ended with an unhandled exception raised by statement at
CrashedAt(at) == pc = "crashed" /\ error[1] = at

\* the main thread has finished the submission loop
AllSubmitted ==
    pc \in {"collect", "exit_with", "unwind", "summary", "done"} \/ CrashedAt("future_result")

\* the main thread has left the with block of the dispatcher
LeftDispatcher == pc \in {"summary", "done"} \/ CrashedAt("future_result")

\* the run reached the dispatcher and is over
DispatchOver == pc = "done" \/ CrashedAt("future_result")

\* key is P, then the decimal numeral of i with no leading zero, then ".txt"
KeyIs(key, P, i) ==
    /\ Len(key) > Len(P) + 4
    /\ SubSeq(key, 1, Len(P)) = P
    /\ SubSeq(key, Len(key) - 3, Len(key)) = <<".", "t", "x", "t">>
    /\ LET numeral == SubSeq(key, Len(P) + 1, Len(key) - 4)
       IN  /\ \A j \in 1..Len(numeral) : IsAsciiDigit(numeral[j])
           /\ Len(numeral) = 1 \/ numeral[1] # "0"
           /\ int(numeral).val = i

PutsOf(i) == {p \in puts : p.future = i}

\* C1: the futures submitted are, in order, the keys P + str(i) + ".txt" for
\* i = N, N+1, ...; never more than C of them and exactly C once the loop
\* has ended; the keys are pairwise distinct; every put_object call carries
\* the key of the future it was made from and no future makes two calls, and
\* exactly one when the run is over
C1_KeysExactlyTheRange ==
    /\ Len(futures) <= num_objects
    /\ AllSubmitted => Len(futures) = num_objects
    /\ \A k \in 1..Len(futures) : KeyIs(futures[k].key, prefix, start_index + k - 1)
    /\ \A k, l \in 1..Len(futures) : k # l => futures[k].key # futures[l].key
    /\ \A p \in puts : p.future \in 1..Len(futures) /\ p.Key = futures[p.future].key
    /\ \A k \in 1..Len(futures) : Cardinality(PutsOf(k)) <= 1
    /\ DispatchOver => \A k \in 1..Len(futures) : Cardinality(PutsOf(k)) = 1

\* a finished run of three objects from index 9 with prefix test-
C1_Witness ==
    /\ pc = "done"
    /\ num_objects = 3
    /\ start_index = 9
    /\ prefix = <<"t","e","s","t","-">>
    /\ futures[2].key = <<"t","e","s","t","-","1","0",".","t","x","t">>
    /\ Cardinality(puts) = 3

\* the places of the listing whose query returned a configuration
LockedPlaces == {i \in 1..Len(replies) : replies[i] = "config"}

DiscoveryOver == pc \notin {"init", "list", "discover"} /\ ~CrashedAt("list_buckets")

\* C3: the object-lock list holds exactly the listed buckets whose query
\* returned a configuration, once each and in listing order; a "not
\* configured" error raises nothing and the loop goes on to the next bucket;
\* any other error ends the run at that bucket with the ClientError, before
\* any prompt; otherwise discovery ends having queried every bucket
C3_DiscoveryExactlyLocked ==
    /\ Len(replies) <= Len(buckets)
    /\ Len(buckets_with_object_lock) = Cardinality(LockedPlaces)
    /\ \A i \in LockedPlaces :
        \E k \in 1..Len(buckets_with_object_lock) :
            buckets_with_object_lock[k] = buckets[i]
    /\ \A k, l \in 1..Len(buckets_with_object_lock) :
        k < l =>
            \E i, j \in LockedPlaces :
                /\ i < j
                /\ buckets_with_object_lock[k] = buckets[i]
                /\ buckets_with_object_lock[l] = buckets[j]
    /\ \A i \in 1..Len(replies) :
        replies[i] = "othererror" =>
            /\ i = Len(replies)
            /\ CrashedAt("get_object_lock_configuration")
            /\ error[2] = "ClientError"
            /\ prompts = {}
    /\ CrashedAt("get_object_lock_configuration") =>
            replies[Len(replies)] = "othererror"
    /\ (DiscoveryOver /\ ~CrashedAt("get_object_lock_configuration")) =>
            Len(replies) = Len(buckets)

\* discovery went on past a "not configured" bucket and a response without
\* configuration, and kept the one locked bucket
C3_Witness ==
    /\ pc = "select"
    /\ \E i, j \in 1..Len(replies) :
        /\ replies[i] = "notfound"
        /\ i < j
        /\ replies[j] = "config"
        /\ buckets_with_object_lock = <<buckets[j]>>

\* C6: the early exit is taken exactly when the listing is empty: it prints
\* its message, raises nothing, issues no prompt and submits nothing; a run
\* whose listing is not empty never takes it and, once discovery is over
\* without error, is at the selection prompt or past it
C6_EarlyExitOnlyWithoutBuckets ==
    /\ pc = "exited" =>
        /\ buckets = <<>>
        /\ {"none", "exiting"} \subseteq printed
        /\ error = <<>>
        /\ prompts = {}
        /\ futures = <<>> /\ puts = {}
    /\ (DiscoveryOver /\ buckets = <<>>) => pc = "exited"
    /\ (DiscoveryOver /\ buckets # <<>> /\ ~CrashedAt("get_object_lock_configuration")) =>
        /\ pc # "exited"
        /\ pc = "select" \/ "bucket" \in prompts

\* the exit on an empty listing
C6_Witness == pc = "exited" /\ s3 = "client" /\ "exiting" \in printed

\* C9: no task is cancelled: the main thread leaves the with block, to the
\* summary or with a task's exception, only when every submitted task has
\* finished, each having made its put_object call
C9_NoCancellation ==
    LeftDispatcher =>
        /\ Len(futures) = num_objects
        /\ \A k \in 1..Len(futures) :
            /\ Finished(futures[k])
            /\ Cardinality(PutsOf(k)) = 1

\* the first task raised while the third was still queued or running, and
\* the run ended only after the third had made its call and returned
C9_Witness ==
    /\ CrashedAt("future_result")
    /\ Len(futures) = 3
    /\ futures[1].state = "raised"
    /\ futures[3].state = "done"
    /\ PutsOf(3) # {}

\* the selection prompt was passed: the script went on to the retention prompt
PastSelection == pc = "retention" \/ "retention" \in prompts

\* the retention prompt was passed
PastRetention == pc = "count" \/ "count" \in prompts

\* C2: every put_object call carries GOVERNANCE, the accepted retention
\* string and the selected bucket, which is the k-th entry, counted from 1,
\* of the object-lock list, k being the number typed (bucket_index + 1)
C2_PutsTargetKthBucket ==
    \A p \in puts :
        /\ p.ObjectLockMode = "GOVERNANCE"
        /\ p.ObjectLockRetainUntilDate = retention
        /\ p.Bucket = bucket_name
        /\ bucket_index + 1 \in 1..Len(buckets_with_object_lock)
        /\ p.Bucket = buckets_with_object_lock[bucket_index + 1]

\* C4: a number outside 1..n typed at the selection prompt ends the run
\* there: the script goes past the prompt only with a number within 1..n
C4_OutOfRangeSelectionFatal ==
    /\ PastSelection => bucket_index + 1 \in 1..Len(buckets_with_object_lock)
    /\ CrashedAt("select_bucket") =>
        /\ bucket_name = <<>>
        /\ "retention" \notin prompts
        /\ futures = <<>> /\ puts = {}

\* YYYY-MM-DDTHH:MM:SSZ: twenty characters, ASCII digits, literal - T : Z
StrictPattern(s) ==
    /\ Len(s) = 20
    /\ \A i \in {1, 2, 3, 4, 6, 7, 9, 10, 12, 13, 15, 16, 18, 19} : IsAsciiDigit(s[i])
    /\ s[5] = "-" /\ s[8] = "-"
    /\ s[11] = "T"
    /\ s[14] = ":" /\ s[17] = ":"
    /\ s[20] = "Z"

\* C5: the retention string the prompt accepts has the form
\* YYYY-MM-DDTHH:MM:SSZ exactly, and is the one every upload carries
C5_AcceptedIsStrictPattern ==
    /\ PastRetention => StrictPattern(retention)
    /\ \A p \in puts : p.ObjectLockRetainUntilDate = retention

\* C10: no answer to the count prompt or to the start-index prompt ends the
\* run with an exception; the values accepted are non-negative integers, and
\* a task is submitted only after the retention, count and start-index
\* prompts were passed
C10_InvalidNumberNeverFatal ==
    /\ ~CrashedAt("count_prompt") /\ ~CrashedAt("start_prompt")
    /\ num_objects >= 0 /\ start_index >= 0
    /\ futures # <<>> =>
        /\ {"retention", "count", "start"} \subseteq prompts
        /\ pc \notin {"retention", "count", "prefix", "start"}

NoTaskRaised == \A k \in 1..Len(futures) : futures[k].state # "raised"

\* C7 as claimed: every run that reached the dispatcher and is over has
\* printed the summary
C7_SummaryAlwaysPrinted == DispatchOver => "summary" \in printed

\* C7 as amended: a run that reaches the dispatcher comes to an end; it ends
\* with the summary, printed last, exactly when no task raised, and with the
\* task's exception and no summary when one did
C7_SummaryIffNoTaskRaised ==
    /\ [](pc = "submit" => <>DispatchOver)
    /\ [](DispatchOver => (("summary" \in printed) <=> NoTaskRaised))
    /\ [](DispatchOver => (pc = "done" <=> NoTaskRaised))
    /\ []("summary" \in printed => pc = "done")

\* a run that ended with a task's exception after another task succeeded
C7_Witness ==
    /\ CrashedAt("future_result")
    /\ "summary" \notin printed
    /\ \E k, l \in 1..Len(futures) :
        futures[k].state = "raised" /\ futures[l].state = "done"

RECURSIVE SumOfLengths(_, _, _)
SumOfLengths(picks, lo, hi) ==
    IF lo > hi THEN 0
    ELSE IF lo = hi THEN Len(words[picks[lo]])
    ELSE LET mid == (lo + hi) \div 2
         IN  SumOfLengths(picks, lo, mid) + SumOfLengths(picks, mid + 1, hi)

\* the length of the words drawn joined by single spaces
PreLength == SumOfLengths(choices, 1, Len(choices)) + Len(choices) - 1

\* C8: for a size of S KiB, S * 200 words are drawn, the text before the
\* slice has the length of the words plus one space between two, and the
\* payload is the first S * 1024 characters of it when it has that many and
\* the whole of it, with nothing added, when it has fewer
C8_PayloadLength ==
    content # <<>> =>
        /\ random_size_kb \in 1..1024
        /\ Len(choices) = random_size_kb * 200
        /\ Len(joined) = PreLength
        /\ Len(content) <= random_size_kb * 1024
        /\ PreLength >= random_size_kb * 1024 =>
                /\ Len(content) = random_size_kb * 1024
                /\ content = SubSeq(joined, 1, random_size_kb * 1024)
        /\ PreLength < random_size_kb * 1024 => content = joined

\* a payload shorter than requested: 200 two-letter words make 599 characters
C8_Witness ==
    /\ content # <<>>
    /\ PreLength < random_size_kb * 1024
    /\ Len(content) < random_size_kb * 1024


=============================================================================
